---------------------------- MODULE Spec2Model ----------------------------
(*************************************************************************)
(* Model of package utilities (src/utilities/logger.go): the leveled     *)
(* logger guarded by logMutex, and the session-token code                *)
(* (init, parseDuration, GenerateTokens, ValidateToken, RefreshTokens).  *)
(*                                                                       *)
(* Three state machines share the module:                                *)
(*   SpecDur      parseDuration called on drawn (value, unit) pairs      *)
(*   SpecTok      init, then the token operations under a moving clock   *)
(*   SpecLog      goroutines calling Info / Warn / Error / Log           *)
(*   FairSpecLog  SpecLog with the scheduling fairness of the runtime    *)
(*************************************************************************)
EXTENDS Integers, Sequences, FiniteSets, TLC

VARIABLES
    \* ---- parseDuration driver
    durCalls,       \* the calls made so far: <<[value, unit, ret]>>
    stdout,         \* lines fmt.Printf wrote to the standard output
    \* ---- token module
    cfg,            \* what config.GetConfig() returns
    phase,          \* "boot" | "ready" | "panicked"
    accessSecret, refreshSecret, accessExpiry, refreshExpiry,
    writes,         \* how many times init assigned the four package variables
    now,            \* the wall clock, in ticks
    last,           \* the last token operation: its inputs and what it returned
    \* ---- logger
    pc,             \* per goroutine: where it is inside Log
    level,          \* per goroutine: the level of the call in progress
    logMutex,       \* holder of logMutex, or NoHolder
    console,        \* what reached the console stream, in order
    logFile,        \* what reached the per-level files, in order
    lockCount, unlockCount,  \* per goroutine: Lock / Unlock calls of the current call
    callsLeft       \* per goroutine: calls it will still make

durVars == <<durCalls, stdout>>
tokVars == <<cfg, phase, accessSecret, refreshSecret, accessExpiry, refreshExpiry,
             writes, now, last>>
logVars == <<pc, level, logMutex, console, logFile, lockCount, unlockCount, callsLeft>>
vars == <<durVars, tokVars, logVars>>

--------------------------------------------------------------------------
(* 64-bit integers.  time.Duration is an int64 count of nanoseconds and   *)
(* Go multiplies it with wrap-around.  A machine integer is a sequence of *)
(* base-256 limbs, least significant first, in two's complement.          *)

LimbBase == 256
Int64Limbs == 8
WideLimbs == 16

RECURSIVE ToLimbs(_, _)
\* n (any sign) as k limbs; \div and % round down, which is two's complement
ToLimbs(n, k) ==
    IF k = 0 THEN <<>> ELSE <<n % LimbBase>> \o ToLimbs(n \div LimbBase, k - 1)

Int64(n) == ToLimbs(n, Int64Limbs)

IsNegative(a) == a[Len(a)] >= LimbBase \div 2

\* sign extension of a to k limbs
SignExtend(a, k) ==
    [i \in 1..k |-> IF i <= Len(a) THEN a[i]
                    ELSE IF IsNegative(a) THEN LimbBase - 1 ELSE 0]

RECURSIVE ColumnSum(_, _, _, _)
\* sum of a[j] * b[i-j+1] for j in 1..j0
ColumnSum(a, b, i, j0) ==
    IF j0 = 0 THEN 0 ELSE a[j0] * b[i - j0 + 1] + ColumnSum(a, b, i, j0 - 1)

RECURSIVE MulFrom(_, _, _, _)
MulFrom(a, b, i, carry) ==
    IF i > Len(a) THEN <<>>
    ELSE LET s == ColumnSum(a, b, i, i) + carry
         IN  <<s % LimbBase>> \o MulFrom(a, b, i + 1, s \div LimbBase)

\* a * b modulo LimbBase^Len(a): the wrapping product of two equally wide integers
MulWrap(a, b) == MulFrom(a, b, 1, 0)

RECURSIVE AddFrom(_, _, _, _)
AddFrom(a, b, i, carry) ==
    IF i > Len(a) THEN <<>>
    ELSE LET s == a[i] + b[i] + carry
         IN  <<s % LimbBase>> \o AddFrom(a, b, i + 1, s \div LimbBase)

AddWrap(a, b) == AddFrom(a, b, 1, 0)

\* -a modulo LimbBase^Len(a)
NegWrap(a) ==
    AddWrap([i \in 1..Len(a) |-> LimbBase - 1 - a[i]], ToLimbs(1, Len(a)))

RECURSIVE DivModFrom(_, _, _, _)
\* long division of the unsigned a by the small c, from limb i down
DivModFrom(a, c, i, rem) ==
    IF i = 0 THEN [q |-> <<>>, r |-> rem]
    ELSE LET cur  == rem * LimbBase + a[i]
             rest == DivModFrom(a, c, i - 1, cur % c)
         IN  [q |-> Append(rest.q, cur \div c), r |-> rest.r]

DivModSmall(a, c) == DivModFrom(a, c, Len(a), 0)

RECURSIVE LimbsToNat(_)
\* the unsigned value of a (it must fit a model integer)
LimbsToNat(a) ==
    IF a = <<>> THEN 0 ELSE a[1] + LimbBase * LimbsToNat(Tail(a))

--------------------------------------------------------------------------
(* parseDuration (logger.go:124-136)                                      *)

\* package time: Second = 1e9 ns, Minute = 60 * Second, Hour = 60 * Minute
Second == Int64(1000000000)
Minute == MulWrap(Int64(60), Second)
Hour == MulWrap(Int64(60), Minute)

\* the line fmt.Printf writes for an unknown unit
UnitWarning(unit) ==
    [text |-> "Warning: Unknown time unit, defaulting to SECONDS", unit |-> unit]

\* a plausible slip: the MINUTES and HOURS factors exchanged
parseDuration_SwappedUnits(value, unit) ==
    CASE unit = "SECONDS" -> [ret |-> MulWrap(value, Second), out |-> <<>>]
      [] unit = "MINUTES" -> [ret |-> MulWrap(value, Hour), out |-> <<>>]
      [] unit = "HOURS"   -> [ret |-> MulWrap(value, Minute), out |-> <<>>]
      [] OTHER            -> [ret |-> MulWrap(value, Second),
                              out |-> <<UnitWarning(unit)>>]

\* value is the int argument (64 bits); ret the Duration returned, out what
\* the call printed
parseDuration(value, unit) ==
    CASE unit = "SECONDS" -> [ret |-> MulWrap(value, Second), out |-> <<>>]
      [] unit = "MINUTES" -> [ret |-> MulWrap(value, Minute), out |-> <<>>]
      [] unit = "HOURS"   -> [ret |-> MulWrap(value, Hour), out |-> <<>>]
      [] OTHER            -> [ret |-> MulWrap(value, Second),
                              out |-> <<UnitWarning(unit)>>]

--------------------------------------------------------------------------
(* Configuration (config.GetConfig, read by init at logger.go:109-120)    *)

MaxTimeout == 2          \* largest SessionTimeouts value drawn
NumUsers == 2            \* users drawn for GenerateTokens
TicksPerSecond == 2      \* clock resolution of the model
MaxClock == 2            \* the clock stops advancing here (ticks)
MaxStep == 2             \* ticks the clock may advance inside one call
MaxJumps == 1            \* points inside one call at which it advances
MaxDurCalls == 1         \* parseDuration calls of SpecDur
MaxSmallValue == 2       \* small values drawn for parseDuration
NumProcs == 2            \* goroutines calling the logger
MaxCalls == 1            \* logger calls per goroutine

ClassKeys == {"ACCESS", "REFRESH"}

\* m[k] of a Go map: the zero value when the key is absent
MapGet(m, k, zero) == IF k \in DOMAIN m THEN m[k] ELSE zero

EmptyMap == [k \in {} |-> 0]
BothKeys(a, r) == [k \in ClassKeys |-> IF k = "ACCESS" THEN a ELSE r]
AccessOnly(a) == [k \in {"ACCESS"} |-> a]

MkCfg(sk, st, tu) ==
    [isNil |-> FALSE, SecretKeys |-> sk, SessionTimeouts |-> st, TimeUnits |-> tu]

NilCfg == [isNil |-> TRUE, SecretKeys |-> EmptyMap, SessionTimeouts |-> EmptyMap,
           TimeUnits |-> EmptyMap]

BaseSecrets == BothKeys("a", "b")
BaseTimeouts == BothKeys(1, MaxTimeout)
BaseUnits == BothKeys("SECONDS", "SECONDS")

\* the configurations drawn: nil, nothing configured, and each of the three
\* maps varied around a usual configuration
Configs ==
    {NilCfg, MkCfg(EmptyMap, EmptyMap, EmptyMap)}
    \cup {MkCfg(sk, BaseTimeouts, BaseUnits) :
            sk \in {BaseSecrets, BothKeys("a", "a"), AccessOnly("a")}}
    \cup {MkCfg(BaseSecrets, BothKeys(x, MaxTimeout), BaseUnits) : x \in 0..MaxTimeout}
    \cup {MkCfg(BaseSecrets, BothKeys(MaxTimeout, 0), BaseUnits)}
    \cup {MkCfg(BaseSecrets, BaseTimeouts, BothKeys("MINUTES", "DAYS"))}

\* every byte string a caller may sign with
KeyStrings == {"", "a", "b"}

--------------------------------------------------------------------------
(* Users, claims and tokens                                               *)

User(i) == [ID |-> i, Username |-> <<"name", i>>, Email |-> <<"mail", i>>]
Users == {User(i) : i \in 1..NumUsers}

\* a *jwt.NumericDate: <<>> is nil, <<s>> is s whole seconds
NilDate == <<>>
Date(s) == <<s>>

\* HMAC of the signing string (header and payload) under key
MAC(key, alg, claims) == [key |-> key, alg |-> alg, claims |-> claims]

NoClaims == [UserID |-> 0, Username |-> <<>>, Email |-> <<>>,
             ExpiresAt |-> NilDate, IssuedAt |-> NilDate, Subject |-> <<>>]

\* a string that is no three-part token
Garbage == [wellFormed |-> FALSE, alg |-> "", claims |-> NoClaims,
            mac |-> MAC("", "", NoClaims)]

\* the compact string header.payload.signature
Token(alg, claims, mac) ==
    [wellFormed |-> TRUE, alg |-> alg, claims |-> claims, mac |-> mac]

\* d (a Duration, nanoseconds) in whole ticks, rounded down
DurationTicksOf(d) ==
    LET w   == MulWrap(SignExtend(d, WideLimbs), ToLimbs(TicksPerSecond, WideLimbs))
        neg == IsNegative(w)
        m   == IF neg THEN NegWrap(w) ELSE w
        d1  == DivModSmall(m, 1000)
        d2  == DivModSmall(d1.q, 1000)
        d3  == DivModSmall(d2.q, 1000)
        q   == LimbsToNat(d3.q)
    IN  IF ~neg THEN q
        ELSE IF d1.r = 0 /\ d2.r = 0 /\ d3.r = 0 THEN -q ELSE -q - 1

\* the durations init can load from Configs, with their ticks
ConfiguredTicks ==
    LET ds == {parseDuration(Int64(MapGet(c.SessionTimeouts, k, 0)),
                             MapGet(c.TimeUnits, k, "")).ret :
                 c \in Configs, k \in ClassKeys}
    IN  [d \in ds |-> DurationTicksOf(d)]

DurationTicks(d) == ConfiguredTicks[d]

\* time.Time.Add
TimeAdd(t, d) == t + DurationTicks(d)

\* jwt.NewNumericDate: the time truncated to whole seconds
NewNumericDate(t) == Date(t \div TicksPerSecond)

\* the instant of a NumericDate, in ticks
DateTicks(nd) == nd[1] * TicksPerSecond

--------------------------------------------------------------------------
(* Token operations (logger.go:147-229).  Each takes the clock readings   *)
(* of its time.Now() calls, in the order the calls are made.              *)

\* a returned string: <<>> is "", <<t>> the token t
NoString == <<>>

\* jwt.NewWithClaims(jwt.SigningMethodHS256, claims).SignedString(secret):
\* HMAC signing with a []byte key has no failing case
SignedString(claims, secret) ==
    [tok |-> <<Token("HS256", claims, MAC(secret, "HS256", claims))>>, err |-> "nil"]

\* a plausible slip: Subject taken from the user name
generateToken_SubjectUsername(user, secret, expiry, tExp, tIat) ==
    SignedString([UserID    |-> user.ID,
                  Username  |-> user.Username,
                  Email     |-> user.Email,
                  ExpiresAt |-> NewNumericDate(TimeAdd(tExp, expiry)),
                  IssuedAt  |-> NewNumericDate(tIat),
                  Subject   |-> user.Username],
                 secret)

\* tExp is the reading of the time.Now() of ExpiresAt, tIat that of IssuedAt
generateToken(user, secret, expiry, tExp, tIat) ==
    SignedString([UserID    |-> user.ID,
                  Username  |-> user.Username,
                  Email     |-> user.Email,
                  ExpiresAt |-> NewNumericDate(TimeAdd(tExp, expiry)),
                  IssuedAt  |-> NewNumericDate(tIat),
                  Subject   |-> user.Email],
                 secret)

\* ts: the four readings, access token first
GenerateTokens(user, ts) ==
    LET a == generateToken(user, accessSecret, accessExpiry, ts[1], ts[2])
        r == generateToken(user, refreshSecret, refreshExpiry, ts[3], ts[4])
    IN  IF a.err # "nil" THEN [access |-> NoString, refresh |-> NoString, err |-> a.err]
        ELSE IF r.err # "nil"
             THEN [access |-> NoString, refresh |-> NoString, err |-> r.err]
        ELSE [access |-> a.tok, refresh |-> r.tok, err |-> "nil"]

\* jwt.ParseWithClaims with a key function returning key, at clock reading t:
\* the string is split and decoded, the signature verified, then the
\* registered claims validated (exp, when present, must be after t)
ParseWithClaims(tokenStr, key, t) ==
    IF ~tokenStr.wellFormed
    THEN [err |-> "token is malformed", valid |-> FALSE, claims |-> NoClaims]
    ELSE IF tokenStr.alg # "HS256"
    THEN [err |-> "token is unverifiable", valid |-> FALSE, claims |-> tokenStr.claims]
    ELSE IF tokenStr.mac # MAC(key, tokenStr.alg, tokenStr.claims)
    THEN [err |-> "signature is invalid", valid |-> FALSE, claims |-> tokenStr.claims]
    ELSE IF tokenStr.claims.ExpiresAt # NilDate
            /\ ~(t < DateTicks(tokenStr.claims.ExpiresAt))
    THEN [err |-> "token is expired", valid |-> FALSE, claims |-> tokenStr.claims]
    ELSE [err |-> "nil", valid |-> TRUE, claims |-> tokenStr.claims]

Failed(msg) == [claims |-> <<>>, err |-> msg, panicked |-> FALSE]

\* a plausible slip: the access secret used for both classes
ValidateToken_OneSecret(tokenStr, isRefresh, t1, t2) ==
    LET token == ParseWithClaims(tokenStr, accessSecret, t1)
    IN  IF token.err # "nil" THEN Failed("invalid or malformed token")
        ELSE IF ~token.valid THEN Failed("invalid token claims")
        ELSE IF token.claims.ExpiresAt = NilDate
             THEN [claims |-> <<>>, err |-> "nil", panicked |-> TRUE]
        ELSE IF DateTicks(token.claims.ExpiresAt) < t2 THEN Failed("token has expired")
        ELSE [claims |-> <<token.claims>>, err |-> "nil", panicked |-> FALSE]

\* a plausible slip: the error of the parse not checked, only token.Valid
ValidateToken_ErrUnchecked(tokenStr, isRefresh, t1, t2) ==
    LET secret == IF isRefresh THEN refreshSecret ELSE accessSecret
        token  == ParseWithClaims(tokenStr, secret, t1)
    IN  IF ~token.valid THEN Failed("invalid token claims")
        ELSE IF token.claims.ExpiresAt = NilDate
             THEN [claims |-> <<>>, err |-> "nil", panicked |-> TRUE]
        ELSE IF DateTicks(token.claims.ExpiresAt) < t2 THEN Failed("token has expired")
        ELSE [claims |-> <<token.claims>>, err |-> "nil", panicked |-> FALSE]

\* t1: the reading inside jwt.ParseWithClaims; t2: that of the explicit check.
\* claims.ExpiresAt.Time of a token without exp dereferences nil: a panic.
ValidateToken(tokenStr, isRefresh, t1, t2) ==
    LET secret == IF isRefresh THEN refreshSecret ELSE accessSecret
        token  == ParseWithClaims(tokenStr, secret, t1)
    IN  IF token.err # "nil" THEN Failed("invalid or malformed token")
        ELSE IF ~token.valid THEN Failed("invalid token claims")
        ELSE IF token.claims.ExpiresAt = NilDate
             THEN [claims |-> <<>>, err |-> "nil", panicked |-> TRUE]
        ELSE IF DateTicks(token.claims.ExpiresAt) < t2 THEN Failed("token has expired")
        ELSE [claims |-> <<token.claims>>, err |-> "nil", panicked |-> FALSE]

NoTokens(msg, subject) ==
    [access |-> NoString, refresh |-> NoString, err |-> msg, panicked |-> FALSE,
     subject |-> subject]

\* the model.User RefreshTokens builds from the claims
ClaimsUser(c) == [ID |-> c.UserID, Username |-> c.Username, Email |-> c.Email]

\* a plausible slip: the two first reasons exchanged
RefreshTokens_SwappedReasons(refreshToken, ts) ==
    LET v == ValidateToken(refreshToken, TRUE, ts[1], ts[2])
    IN  IF v.panicked
        THEN [access |-> NoString, refresh |-> NoString, err |-> "nil",
              panicked |-> TRUE, subject |-> User(0)]
        ELSE IF v.err # "nil" THEN NoTokens("refresh token has expired", User(0))
        ELSE IF DateTicks(v.claims[1].ExpiresAt) < ts[3]
             THEN NoTokens("invalid or expired refresh token", User(0))
        ELSE LET u == ClaimsUser(v.claims[1])
                 g == GenerateTokens(u, SubSeq(ts, 4, 7))
             IN  IF g.err # "nil" THEN NoTokens("failed to generate new tokens", u)
                 ELSE [access |-> g.access, refresh |-> g.refresh, err |-> "nil",
                       panicked |-> FALSE, subject |-> u]

\* ts: the seven readings: two of ValidateToken, one of the re-check, four of
\* GenerateTokens.  subject is the user handed to GenerateTokens.
RefreshTokens(refreshToken, ts) ==
    LET v == ValidateToken(refreshToken, TRUE, ts[1], ts[2])
    IN  IF v.panicked
        THEN [access |-> NoString, refresh |-> NoString, err |-> "nil",
              panicked |-> TRUE, subject |-> User(0)]
        ELSE IF v.err # "nil" THEN NoTokens("invalid or expired refresh token", User(0))
        ELSE IF DateTicks(v.claims[1].ExpiresAt) < ts[3]
             THEN NoTokens("refresh token has expired", User(0))
        ELSE LET u == ClaimsUser(v.claims[1])
                 g == GenerateTokens(u, SubSeq(ts, 4, 7))
             IN  IF g.err # "nil" THEN NoTokens("failed to generate new tokens", u)
                 ELSE [access |-> g.access, refresh |-> g.refresh, err |-> "nil",
                       panicked |-> FALSE, subject |-> u]

--------------------------------------------------------------------------
(* The token state machine                                                *)

\* the clock readings of a call making n reads: the first is the clock at the
\* call, later ones may be later
Monotone(f, n) == \A i \in 1..(n - 1) : f[i] <= f[i + 1]
Jumps(f, n) == Cardinality({i \in 1..(n - 1) : f[i] < f[i + 1]})
OffsetsOf(n) ==
    {f \in [1..n -> 0..MaxStep] : f[1] = 0 /\ Monotone(f, n) /\ Jumps(f, n) <= MaxJumps}
ValidateOffsets == OffsetsOf(2)
GenerateOffsets == OffsetsOf(4)
RefreshOffsets == OffsetsOf(7)
Readings(offsets) == {[i \in DOMAIN f |-> now + f[i]] : f \in offsets}

NoIssue == [user |-> User(0), tExp |-> 0, tIat |-> 0, end |-> 0]

NoOp ==
    [op |-> "none", user |-> User(0), tok |-> Garbage, isRefresh |-> FALSE,
     origin |-> "none", issue |-> NoIssue, reads |-> <<>>,
     access |-> NoString, refresh |-> NoString, subject |-> User(0),
     claims |-> <<>>, err |-> "nil", panicked |-> FALSE]

\* token strings a caller can build without the module: any claims, signed
\* with any key, an unsigned token, and a string that is no token
MaxSeconds == (MaxClock + MaxStep) \div TicksPerSecond
ForgedClaims ==
    {[UserID |-> 1, Username |-> User(1).Username, Email |-> User(1).Email,
      ExpiresAt |-> e, IssuedAt |-> Date(0), Subject |-> User(1).Email] :
        e \in {NilDate} \cup {Date(x) : x \in 0..MaxSeconds}}
ForgedTokens ==
    {Token("HS256", c, MAC(k, "HS256", c)) : c \in ForgedClaims, k \in KeyStrings}
    \cup {Token("none", c, MAC("", "none", c)) :
            c \in {x \in ForgedClaims : x.ExpiresAt = Date(MaxSeconds)}}
    \cup {Garbage}

\* the token strings handed to ValidateToken and RefreshTokens: the two the
\* previous call returned, or a built one.  origin and issue remember where
\* the string came from.
TokenInputs ==
    {[tok |-> t, origin |-> "forged", issue |-> NoIssue] : t \in ForgedTokens}
    \cup (IF last.op \in {"GenerateTokens", "RefreshTokens"} /\ last.access # NoString
          THEN LET k == Len(last.reads)
               IN {[tok |-> last.access[1], origin |-> "access",
                    issue |-> [user |-> last.subject, tExp |-> last.reads[k - 3],
                               tIat |-> last.reads[k - 2], end |-> last.reads[k]]],
                   [tok |-> last.refresh[1], origin |-> "refresh",
                    issue |-> [user |-> last.subject, tExp |-> last.reads[k - 1],
                               tIat |-> last.reads[k], end |-> last.reads[k]]]}
          ELSE {})

\* func init(): panics without a configuration, else loads the four variables
PackageInit ==
    /\ phase = "boot"
    /\ IF cfg.isNil
       THEN /\ phase' = "panicked"
            /\ UNCHANGED <<accessSecret, refreshSecret, accessExpiry, refreshExpiry,
                           writes, stdout>>
       ELSE LET a == parseDuration(Int64(MapGet(cfg.SessionTimeouts, "ACCESS", 0)),
                                   MapGet(cfg.TimeUnits, "ACCESS", ""))
                r == parseDuration(Int64(MapGet(cfg.SessionTimeouts, "REFRESH", 0)),
                                   MapGet(cfg.TimeUnits, "REFRESH", ""))
            IN  /\ accessSecret' = MapGet(cfg.SecretKeys, "ACCESS", "")
                /\ refreshSecret' = MapGet(cfg.SecretKeys, "REFRESH", "")
                /\ accessExpiry' = a.ret
                /\ refreshExpiry' = r.ret
                /\ stdout' = stdout \o a.out \o r.out
                /\ writes' = writes + 1
                /\ phase' = "ready"
    /\ UNCHANGED <<cfg, now, last, durCalls, logVars>>

\* time passes between calls
Tick ==
    /\ phase = "ready"
    /\ now < MaxClock
    /\ now' = now + 1
    /\ UNCHANGED <<cfg, phase, accessSecret, refreshSecret, accessExpiry,
                   refreshExpiry, writes, last, durVars, logVars>>

CallGenerateTokens ==
    /\ phase = "ready"
    /\ now <= MaxClock
    /\ \E user \in Users, ts \in Readings(GenerateOffsets) :
         LET g == GenerateTokens(user, ts)
         IN  /\ last' = [NoOp EXCEPT !.op = "GenerateTokens", !.user = user,
                                     !.reads = ts, !.access = g.access,
                                     !.refresh = g.refresh, !.subject = user,
                                     !.err = g.err]
             /\ now' = ts[Len(ts)]
    /\ UNCHANGED <<cfg, phase, accessSecret, refreshSecret, accessExpiry,
                   refreshExpiry, writes, durVars, logVars>>

CallValidateToken ==
    /\ phase = "ready"
    /\ now <= MaxClock
    /\ \E in \in TokenInputs, isRefresh \in BOOLEAN, ts \in Readings(ValidateOffsets) :
         LET v == ValidateToken(in.tok, isRefresh, ts[1], ts[2])
         IN  /\ last' = [NoOp EXCEPT !.op = "ValidateToken", !.tok = in.tok,
                                     !.isRefresh = isRefresh, !.origin = in.origin,
                                     !.issue = in.issue, !.reads = ts,
                                     !.claims = v.claims, !.err = v.err,
                                     !.panicked = v.panicked]
             /\ now' = ts[Len(ts)]
    /\ UNCHANGED <<cfg, phase, accessSecret, refreshSecret, accessExpiry,
                   refreshExpiry, writes, durVars, logVars>>

CallRefreshTokens ==
    /\ phase = "ready"
    /\ now <= MaxClock
    /\ \E in \in TokenInputs, ts \in Readings(RefreshOffsets) :
         LET r == RefreshTokens(in.tok, ts)
         IN  /\ last' = [NoOp EXCEPT !.op = "RefreshTokens", !.tok = in.tok,
                                     !.isRefresh = TRUE, !.origin = in.origin,
                                     !.issue = in.issue, !.reads = ts,
                                     !.access = r.access, !.refresh = r.refresh,
                                     !.subject = r.subject, !.err = r.err,
                                     !.panicked = r.panicked]
             /\ now' = ts[Len(ts)]
    /\ UNCHANGED <<cfg, phase, accessSecret, refreshSecret, accessExpiry,
                   refreshExpiry, writes, durVars, logVars>>

NextTok ==
    \/ PackageInit
    \/ Tick
    \/ CallGenerateTokens
    \/ CallValidateToken
    \/ CallRefreshTokens

--------------------------------------------------------------------------
(* parseDuration called on its own                                        *)

\* the int values drawn: small ones, the last value each unit takes without
\* overflow and the first it does not, and the ends of the 64-bit range
DurValues ==
    {Int64(n) : n \in (-MaxSmallValue)..MaxSmallValue}
    \cup {Int64(n) : n \in {5, 60, 3600,
                            2562047, 2562048, -2562047, -2562048,
                            153722867, 153722868, -153722867, -153722868}}
    \cup {AddWrap(MulWrap(Int64(9223), Int64(1000000)), Int64(n)) : n \in {372036, 372037}}
    \cup {[i \in 1..Int64Limbs |-> IF i = Int64Limbs THEN LimbBase \div 2 - 1 ELSE LimbBase - 1],
          [i \in 1..Int64Limbs |-> IF i = Int64Limbs THEN LimbBase \div 2 ELSE 0]}

DurUnits == {"SECONDS", "MINUTES", "HOURS", "DAYS", "minutes", ""}

CallParseDuration ==
    /\ Len(durCalls) < MaxDurCalls
    /\ \E value \in DurValues, unit \in DurUnits :
         LET r == parseDuration(value, unit)
         IN  /\ durCalls' = Append(durCalls, [value |-> value, unit |-> unit,
                                              ret |-> r.ret])
             /\ stdout' = stdout \o r.out
    /\ UNCHANGED <<tokVars, logVars>>

--------------------------------------------------------------------------
(* The logger (logger.go:13-85).  Goroutines call Info, Warn, Error or    *)
(* Log; each call is the steps of Log.                                    *)

Procs == 1..NumProcs
NoHolder == 0
NoLine == [by |-> 0, level |-> "", logger |-> ""]

EntryPoints == {"Info", "Warn", "Error", "Log"}

\* the level Info, Warn and Error pass to Log; a direct caller of Log may
\* pass any string, here one that is no known level
EntryLevel(entry) ==
    CASE entry = "Info"  -> "INFO"
      [] entry = "Warn"  -> "WARNING"
      [] entry = "Error" -> "ERROR"
      [] OTHER           -> "DEBUG"

\* the switch of Log: the logger a level is written with
LevelLogger(lv) ==
    CASE lv = "INFO"    -> "infoLog"
      [] lv = "WARNING" -> "warnLog"
      [] lv = "ERROR"   -> "errorLog"
      [] OTHER          -> "infoLog"

\* a goroutine enters Info, Warn, Error or Log
Call(p) ==
    /\ pc[p] = "idle"
    /\ callsLeft[p] > 0
    /\ \E entry \in EntryPoints : level' = [level EXCEPT ![p] = EntryLevel(entry)]
    /\ pc' = [pc EXCEPT ![p] = "lock"]
    /\ lockCount' = [lockCount EXCEPT ![p] = 0]
    /\ unlockCount' = [unlockCount EXCEPT ![p] = 0]
    /\ callsLeft' = [callsLeft EXCEPT ![p] = @ - 1]
    /\ UNCHANGED <<logMutex, console, logFile, durVars, tokVars>>

\* a plausible slip: the lock taken without waiting for its holder
Lock_NoWait(p) ==
    /\ pc[p] = "lock"
    /\ logMutex' = p
    /\ lockCount' = [lockCount EXCEPT ![p] = @ + 1]
    /\ pc' = [pc EXCEPT ![p] = "format"]
    /\ UNCHANGED <<level, console, logFile, unlockCount, callsLeft, durVars, tokVars>>

\* logMutex.Lock(): blocks while another goroutine holds the mutex
Lock(p) ==
    /\ pc[p] = "lock"
    /\ logMutex = NoHolder
    /\ logMutex' = p
    /\ lockCount' = [lockCount EXCEPT ![p] = @ + 1]
    /\ pc' = [pc EXCEPT ![p] = "format"]
    /\ UNCHANGED <<level, console, logFile, unlockCount, callsLeft, durVars, tokVars>>

\* the two fmt.Sprintf calls and getCallerInfo
Format(p) ==
    /\ pc[p] = "format"
    /\ pc' = [pc EXCEPT ![p] = "console"]
    /\ UNCHANGED <<level, logMutex, console, logFile, lockCount, unlockCount,
                   callsLeft, durVars, tokVars>>

\* Println through the MultiWriter: first the console stream ...
WriteConsole(p) ==
    /\ pc[p] = "console"
    /\ console' = [by |-> p, level |-> level[p], logger |-> LevelLogger(level[p])]
    /\ pc' = [pc EXCEPT ![p] = "file"]
    /\ UNCHANGED <<level, logMutex, logFile, lockCount, unlockCount, callsLeft,
                   durVars, tokVars>>

\* ... then the file of the logger
WriteFile(p) ==
    /\ pc[p] = "file"
    /\ logFile' = [by |-> p, level |-> level[p], logger |-> LevelLogger(level[p])]
    /\ pc' = [pc EXCEPT ![p] = "unlock"]
    /\ UNCHANGED <<level, logMutex, console, lockCount, unlockCount, callsLeft,
                   durVars, tokVars>>

\* the deferred logMutex.Unlock(), then the return
Unlock(p) ==
    /\ pc[p] = "unlock"
    /\ logMutex' = NoHolder
    /\ unlockCount' = [unlockCount EXCEPT ![p] = @ + 1]
    /\ pc' = [pc EXCEPT ![p] = "idle"]
    /\ UNCHANGED <<level, console, logFile, lockCount, callsLeft, durVars, tokVars>>

\* the steps of Log after the lock is taken
Run(p) == Format(p) \/ WriteConsole(p) \/ WriteFile(p) \/ Unlock(p)

NextLog == \E p \in Procs : Call(p) \/ Lock(p) \/ Run(p)

--------------------------------------------------------------------------
(* Specifications                                                         *)

\* Package state before init runs, the loggers as setupLogging leaves them,
\* nothing printed, no call made.  cfgs: the configurations drawn.
InitDur ==
    /\ durCalls = <<>>
    /\ stdout = <<>>
    /\ cfg = NilCfg
    /\ phase = "boot"
    /\ accessSecret = ""
    /\ refreshSecret = ""
    /\ accessExpiry = Int64(0)
    /\ refreshExpiry = Int64(0)
    /\ writes = 0
    /\ now = 0
    /\ last = NoOp
    /\ pc = [p \in Procs |-> "idle"]
    /\ level = [p \in Procs |-> ""]
    /\ logMutex = NoHolder
    /\ console = NoLine
    /\ logFile = NoLine
    /\ lockCount = [p \in Procs |-> 0]
    /\ unlockCount = [p \in Procs |-> 0]
    /\ callsLeft = [p \in Procs |-> MaxCalls]

InitTok ==
    /\ durCalls = <<>>
    /\ stdout = <<>>
    /\ cfg \in Configs
    /\ phase = "boot"
    /\ accessSecret = ""
    /\ refreshSecret = ""
    /\ accessExpiry = Int64(0)
    /\ refreshExpiry = Int64(0)
    /\ writes = 0
    /\ now = 0
    /\ last = NoOp
    /\ pc = [p \in Procs |-> "idle"]
    /\ level = [p \in Procs |-> ""]
    /\ logMutex = NoHolder
    /\ console = NoLine
    /\ logFile = NoLine
    /\ lockCount = [p \in Procs |-> 0]
    /\ unlockCount = [p \in Procs |-> 0]
    /\ callsLeft = [p \in Procs |-> MaxCalls]

InitLog ==
    /\ durCalls = <<>>
    /\ stdout = <<>>
    /\ cfg = NilCfg
    /\ phase = "boot"
    /\ accessSecret = ""
    /\ refreshSecret = ""
    /\ accessExpiry = Int64(0)
    /\ refreshExpiry = Int64(0)
    /\ writes = 0
    /\ now = 0
    /\ last = NoOp
    /\ pc = [p \in Procs |-> "idle"]
    /\ level = [p \in Procs |-> ""]
    /\ logMutex = NoHolder
    /\ console = NoLine
    /\ logFile = NoLine
    /\ lockCount = [p \in Procs |-> 0]
    /\ unlockCount = [p \in Procs |-> 0]
    /\ callsLeft = [p \in Procs |-> MaxCalls]

NextDur == CallParseDuration

SpecDur == InitDur /\ [][NextDur]_vars

SpecTok == InitTok /\ [][NextTok]_vars

SpecLog == InitLog /\ [][NextLog]_vars

\* the runtime keeps every runnable goroutine running, and sync.Mutex hands
\* the lock to a waiter that has waited long (starvation mode)
FairSpecLog ==
    SpecLog /\ \A p \in Procs : WF_vars(Run(p)) /\ SF_vars(Lock(p))

Spec == SpecTok

--------------------------------------------------------------------------
(* Claims about the token operations, checked under SpecTok               *)

\* the secret ValidateToken selects
SelectedSecret(isRefresh) == IF isRefresh THEN refreshSecret ELSE accessSecret

\* tok is a token signed, with HS256, under the selected secret
CorrectlySigned(tok, isRefresh) ==
    /\ tok.wellFormed
    /\ tok.alg = "HS256"
    /\ tok.mac = MAC(SelectedSecret(isRefresh), tok.alg, tok.claims)

\* a Duration in whole seconds
ExpirySeconds(d) == DurationTicks(d) \div TicksPerSecond

Succeeded == last.err = "nil" /\ ~last.panicked

\* ValidateToken(a, false) has just returned, a being the access token the
\* call before returned
ValidatedIssuedAccess ==
    last.op = "ValidateToken" /\ last.origin = "access" /\ ~last.isRefresh

IdentityOf(c, u) ==
    /\ c.UserID = u.ID
    /\ c.Username = u.Username
    /\ c.Email = u.Email
    /\ c.Subject = u.Email

\* C1 as stated: ValidateToken(a, false), a the access token of
\* GenerateTokens(U), made at once (the clock where GenerateTokens left it),
\* succeeds and returns claims with the identity of U, Subject = U.Email and
\* ExpiresAt - IssuedAt equal to the access expiry.
C1_RoundTripExact ==
    (ValidatedIssuedAccess
        /\ last.reads[1] = last.issue.end /\ last.reads[2] = last.issue.end)
    => /\ Succeeded
       /\ last.claims # <<>>
       /\ IdentityOf(last.claims[1], last.issue.user)
       /\ last.claims[1].ExpiresAt[1] - last.claims[1].IssuedAt[1]
             = ExpirySeconds(accessExpiry)

\* C1 as amended: ValidateToken(a, false) succeeds exactly when the clock is
\* before ExpiresAt at the check of the library and not after it at the
\* explicit check; the claims it then returns carry the identity of U and
\* Subject = U.Email, and ExpiresAt - IssuedAt is at most the access expiry,
\* equal to it when the two time.Now() of generateToken read the same second.
C1_RoundTrip ==
    ValidatedIssuedAccess
    => LET exp == DateTicks(last.tok.claims.ExpiresAt)
       IN  /\ ~last.panicked
           /\ (last.err = "nil") <=> (last.reads[1] < exp /\ last.reads[2] <= exp)
           /\ (last.err = "nil")
                => /\ last.claims # <<>>
                   /\ IdentityOf(last.claims[1], last.issue.user)
                   /\ last.claims[1].ExpiresAt[1] - last.claims[1].IssuedAt[1]
                         <= ExpirySeconds(accessExpiry)
                   /\ (last.issue.tExp \div TicksPerSecond
                          = last.issue.tIat \div TicksPerSecond)
                        => (last.claims[1].ExpiresAt[1] - last.claims[1].IssuedAt[1]
                              = ExpirySeconds(accessExpiry))

\* C1 witness: an issued access token validated, whose ExpiresAt - IssuedAt
\* is below the access expiry
C1_Witness ==
    /\ ValidatedIssuedAccess
    /\ Succeeded
    /\ last.claims # <<>>
    /\ last.claims[1].ExpiresAt[1] - last.claims[1].IssuedAt[1]
          < ExpirySeconds(accessExpiry)

\* C2: a token signed under the selected secret whose ExpiresAt is at or
\* before the clock at the call fails with "token has expired", for both
\* classes.
C2_ExpiredError ==
    (/\ last.op = "ValidateToken"
     /\ CorrectlySigned(last.tok, last.isRefresh)
     /\ last.tok.claims.ExpiresAt # NilDate
     /\ DateTicks(last.tok.claims.ExpiresAt) <= last.reads[1])
    => last.err = "token has expired"

\* C3: a token signed with a secret other than the one ValidateToken selects
\* yields no claims and "invalid or malformed token", whatever it carries.
C3_WrongSecretMalformed ==
    (/\ last.op = "ValidateToken"
     /\ last.tok.wellFormed
     /\ last.tok.mac.key # SelectedSecret(last.isRefresh))
    => /\ last.claims = <<>>
       /\ last.err = "invalid or malformed token"
       /\ ~last.panicked

\* C3 witness: a token with a valid-looking future expiry, signed with another
\* secret, was rejected
C3_Witness ==
    /\ last.op = "ValidateToken"
    /\ last.tok.wellFormed
    /\ last.tok.alg = "HS256"
    /\ last.tok.mac.key # SelectedSecret(last.isRefresh)
    /\ last.tok.mac = MAC(last.tok.mac.key, last.tok.alg, last.tok.claims)
    /\ last.tok.claims.ExpiresAt # NilDate
    /\ DateTicks(last.tok.claims.ExpiresAt) > last.reads[2]
    /\ last.err = "invalid or malformed token"

\* C4: after RefreshTokens succeeded on r, both new tokens validate, each in
\* its class, and carry the identity of the claims of r.
C4_RefreshedValidate ==
    (last.op = "RefreshTokens" /\ Succeeded)
    => LET id == ClaimsUser(last.tok.claims)
           va == ValidateToken(last.access[1], FALSE, now, now)
           vr == ValidateToken(last.refresh[1], TRUE, now, now)
       IN  /\ va.err = "nil" /\ va.claims # <<>>
           /\ ClaimsUser(va.claims[1]) = id
           /\ vr.err = "nil" /\ vr.claims # <<>>
           /\ ClaimsUser(vr.claims[1]) = id

CrossClassCall ==
    /\ last.op = "ValidateToken"
    /\ \/ last.origin = "access" /\ last.isRefresh
       \/ last.origin = "refresh" /\ ~last.isRefresh

CrossClassRejected ==
    /\ (last.op = "RefreshTokens" /\ last.origin = "access")
         => /\ last.err # "nil"
            /\ last.access = NoString
            /\ last.refresh = NoString
    /\ CrossClassCall => (last.claims = <<>> /\ last.err # "nil")

\* C5 as stated: RefreshTokens on an issued access token fails and returns no
\* tokens, and ValidateToken rejects every cross-class use, under every
\* configuration.
C5_CrossClassAlways == CrossClassRejected

\* C5 as amended: the same, under every configuration whose access and
\* refresh secrets differ.
C5_CrossClassDistinctSecrets == (accessSecret # refreshSecret) => CrossClassRejected

C5_Witness ==
    /\ accessSecret # refreshSecret
    /\ last.op = "RefreshTokens"
    /\ last.origin = "access"
    /\ last.err = "invalid or expired refresh token"

IssuedTokens ==
    IF last.op \in {"GenerateTokens", "RefreshTokens"} /\ last.access # NoString
    THEN {last.access[1], last.refresh[1]}
    ELSE {}

\* C7: every token GenerateTokens or RefreshTokens returns has
\* ExpiresAt > IssuedAt.
C7_ExpiresAfterIssued ==
    \A t \in IssuedTokens : t.claims.ExpiresAt[1] > t.claims.IssuedAt[1]

\* C8: the secrets and expiries are written once, by init; when init has
\* completed both secrets are present and both expiries come from the
\* configuration; without a configuration no token operation runs.
C8_FullyPopulated ==
    /\ writes <= 1
    /\ (last.op # "none") => (phase = "ready")
    /\ (phase = "ready")
         => /\ writes = 1
            /\ ~cfg.isNil
            /\ accessSecret # "" /\ refreshSecret # ""
            /\ ClassKeys \subseteq DOMAIN cfg.SessionTimeouts
            /\ ClassKeys \subseteq DOMAIN cfg.TimeUnits

RefreshReasons ==
    {"invalid or expired refresh token", "refresh token has expired",
     "failed to generate new tokens"}

\* generateToken can fail for some user, secret, expiry and clock reading
GenerateCanFail ==
    \E u \in Users, k \in KeyStrings, d \in DOMAIN ConfiguredTicks,
       t \in 0..(MaxClock + MaxStep) :
        generateToken(u, k, d, t, t).err # "nil"

--------------------------------------------------------------------------
(* Claims about parseDuration, checked under SpecDur                      *)

\* the seconds the claim gives one unit of each name
ClaimedSeconds(unit) ==
    CASE unit = "SECONDS" -> 1
      [] unit = "MINUTES" -> 60
      [] unit = "HOURS"   -> 3600
      [] OTHER            -> 1

\* value * ClaimedSeconds(unit) seconds in nanoseconds, computed without
\* overflow (the product is below 2^106)
ExactNanos(value, unit) ==
    MulWrap(SignExtend(value, WideLimbs),
            MulWrap(ToLimbs(ClaimedSeconds(unit), WideLimbs),
                    ToLimbs(1000000000, WideLimbs)))

FitsInt64(w) == SignExtend(SubSeq(w, 1, Int64Limbs), WideLimbs) = w

RECURSIVE WarningsOf(_)
\* the lines the calls print: one for each call with an unknown unit
WarningsOf(calls) ==
    IF calls = <<>> THEN <<>>
    ELSE LET c == calls[Len(calls)]
             before == WarningsOf(SubSeq(calls, 1, Len(calls) - 1))
         IN  IF c.unit \in {"SECONDS", "MINUTES", "HOURS"} THEN before
             ELSE Append(before, UnitWarning(c.unit))

\* C6 as stated: for every value and unit the result is value, value * 60 or
\* value * 3600 seconds (value seconds for an unknown unit), and exactly the
\* calls with an unknown unit print one warning naming it.
C6_TotalScaling ==
    /\ \A i \in DOMAIN durCalls :
         SignExtend(durCalls[i].ret, WideLimbs)
            = ExactNanos(durCalls[i].value, durCalls[i].unit)
    /\ stdout = WarningsOf(durCalls)

\* C6 as amended: the result is that product reduced modulo 2^64 (the
\* product itself whenever it fits an int64 of nanoseconds), with the same
\* warnings.
C6_WrappedScaling ==
    /\ \A i \in DOMAIN durCalls :
         LET exact == ExactNanos(durCalls[i].value, durCalls[i].unit)
         IN  /\ durCalls[i].ret = SubSeq(exact, 1, Int64Limbs)
             /\ FitsInt64(exact) => SignExtend(durCalls[i].ret, WideLimbs) = exact
    /\ stdout = WarningsOf(durCalls)

\* C6 witness: a call with an unknown unit overflowed, wrapped and printed
C6_Witness ==
    \E i \in DOMAIN durCalls :
        /\ durCalls[i].unit = "DAYS"
        /\ ~FitsInt64(ExactNanos(durCalls[i].value, durCalls[i].unit))
        /\ durCalls[i].ret = MulWrap(durCalls[i].value, Second)
        /\ stdout = <<UnitWarning("DAYS")>>

--------------------------------------------------------------------------
(* Claims about the logger, checked under FairSpecLog                     *)

InLog == {"format", "console", "file", "unlock"}

\* what is written is written under the mutex, by one goroutine at a time,
\* which locks once and unlocks once per call; a started call can step
LogExclusive ==
    /\ \A p \in Procs : (pc[p] \in InLog) <=> (logMutex = p)
    /\ \A p \in Procs :
         /\ lockCount[p] <= 1
         /\ unlockCount[p] <= lockCount[p]
         /\ (pc[p] \in InLog) => (lockCount[p] = 1 /\ unlockCount[p] = 0)
         /\ (pc[p] = "idle" /\ callsLeft[p] < MaxCalls)
              => (lockCount[p] = 1 /\ unlockCount[p] = 1)
         /\ (pc[p] \in {"file", "unlock"}) => (console.by = p)
         /\ (pc[p] = "unlock") => (logFile = console)
    /\ (\E p \in Procs : pc[p] # "idle")
         => (\E p \in Procs : ENABLED (Lock(p) \/ Run(p)))

\* C10: under any interleaving of Info, Warn, Error and Log calls one caller
\* at a time is between formatting and writing, the mutex is taken once and
\* released once per call, and every call returns with the mutex released.
C10_Serialized ==
    /\ []LogExclusive
    /\ \A p \in Procs : (pc[p] # "idle") ~> (pc[p] = "idle" /\ logMutex # p)

\* C10 witness: one goroutine is writing while another waits for the mutex
C10_Witness ==
    \E p, q \in Procs : pc[p] = "file" /\ pc[q] = "lock" /\ logMutex = p

==========================================================================
